---- MODULE Spec2Model ----
(***************************************************************************)
(* A model of the OV5640 camera/autofocus driver of mycamera/__init__.py.  *)
(*                                                                         *)
(* The host (the driver) runs one operation at a time; pc is its position  *)
(* in the code.  The sensor is the environment: a register file the        *)
(* autofocus coprocessor may change between any two host steps.            *)
(*                                                                         *)
(* Bus traffic is recorded in two history variables: log holds every       *)
(* register write, burst write and single register read of the current     *)
(* operation; the reads of a poll loop are counted in polls (and its       *)
(* 10 ms sleeps in sleeps) instead of being appended to log.               *)
(***************************************************************************)
EXTENDS Integers, Sequences, FiniteSets, TLC

-----------------------------------------------------------------------------
(* Program constants                                                       *)

OV5640_STAT_FIRMWAREBAD == 127
OV5640_STAT_STARTUP == 126
OV5640_STAT_IDLE == 112
OV5640_STAT_FOCUSING == 0
OV5640_STAT_FOCUSED == 16

OV5640_CMD_TRIGGER_AUTOFOCUS == 3
OV5640_CMD_RELEASE_FOCUS == 8
OV5640_CMD_AF_SET_VCM_STEP == 26
OV5640_CMD_AF_GET_VCM_STEP == 27

\* 0x3022 .. 0x3029
OV5640_CMD_MAIN == 12322
OV5640_CMD_ACK == 12323
OV5640_CMD_PARA0 == 12324
OV5640_CMD_PARA3 == 12327
OV5640_CMD_PARA4 == 12328
OV5640_CMD_FW_STATUS == 12329
\* 0x3000, the system reset register of the autofocus coprocessor
REG_SYS_RESET == 12288
\* 0x3212, written around the white balance registers
REG_GROUP_ACCESS == 12818
\* 0x3400 .. 0x3405, the white balance registers, and 0x3406
REG_AWB_GAIN == 13312
REG_AWB_MANUAL == 13318
\* 0x3500 .. 0x3502, the exposure registers
REG_EXPOSURE == 13568
\* 0x350B, the gain register
REG_GAIN == 13579

\* _REG_DLY, 0xFFFF
REG_DLY == 65535
\* the value written to 0x3000 to reset the coprocessor, 0x20
FW_RESET_VALUE == 32
\* the load address of the firmware, 0x8000
FW_BASE == 32768
\* range(0, len(firmware), 254)
ChunkSize == 254

\* The value of resolution while self._resolution has not been assigned.
NoAttr == -1

\* range(100) of the poll loops
PollBudget == 100

\* [False] * 5, and range(5) of the zone reads
NumZones == 5

-----------------------------------------------------------------------------
(* Bounds of the model                                                     *)

\* The coprocessor reports a zone score in 0 .. MaxZoneScore.
MaxZoneScore == 1

\* Firmware images of up to MaxFullChunks full chunks, and one byte more, are loaded.
MaxFullChunks == 3

\* The resolution setter is called with the ints -MaxIndex .. MaxIndex.
MaxIndex == 30

\* write_camera_list is called with lists of up to MaxPairs pairs.
MaxPairs == 3

-----------------------------------------------------------------------------

VARIABLES
    pc,           \* position of the host inside the current operation
    op,           \* the public operation in progress, "none" between calls
    cmd,          \* the command argument of _send_autofocus_command
    cmdRet,       \* what _send_autofocus_command returned: "none", "True", "False"
    polls,        \* reads issued so far by the current poll loop
    sleeps,       \* 10 ms sleeps taken so far by the current poll loop
    polled,       \* the value the latest poll read returned
    handshakes,   \* history: what each _send_autofocus_command of this operation returned
    zone_focus,   \* the list autofocus() builds and returns
    result,       \* how the operation ended: "none" while it runs
    log,          \* bus transactions of the current operation, poll reads excepted
    regs,         \* the sensor's registers
    sensor_name,  \* self.camera.sensor_name
    fw_len,       \* len(firmware) of the firmware argument of autofocus_init_from_bitstream
    offset,       \* the loop variable of the chunk loop
    reg_list,     \* the argument of write_camera_list
    list_i,       \* the loop variable i of write_camera_list
    resolution,   \* self._resolution, NoAttr while the attribute does not exist
    pixel_format, \* the pixel format the camera is configured for
    frame_size,   \* the frame size the camera is configured for
    calls,        \* the calls the current operation has made on self.camera
    res,          \* the argument of the resolution setter
    selected,     \* history: the argument of the latest setter call that stored a selection
    whitebal,     \* self.camera.whitebal: "default" until the driver assigns it
    exposure_ctrl, \* self.camera.exposure_ctrl, likewise
    gain_ctrl,    \* self.camera.gain_ctrl, likewise
    param,        \* the argument of the VCM step setter or of a set_camera_* call
    ret,          \* the value the VCM step getter or get_camera_autosettings returns
    todo,         \* the register writes the straight-line code in progress has yet to make
    read_back,    \* the bytes get_camera_autosettings has read so far
    programmed,   \* history: per set_camera_* operation, the value its latest call has
                  \* programmed in full, None once a later call of it has begun
    pir_pc,       \* position of the script pir_af.py: "start" once MyCamera() has returned
    pir_status,   \* pir_status of the main loop: what the latest poll of the PIR read
    pir_last_status, \* pir_last_status of the main loop
    first_poll    \* history: the main loop has not polled the PIR yet

\* What the firmware loader adds to the state of the autofocus engine.
fwVars == <<sensor_name, fw_len, offset, reg_list, list_i>>

\* What the pipeline controller adds to it.
pipeVars == <<resolution, pixel_format, frame_size, calls, res, selected>>

\* The camera's automatic-control flags and the locals of the operations
\* that set and read the lens position, exposure, gain and white balance.
ctlVars == <<whitebal, exposure_ctrl, gain_ctrl, param, ret, todo, read_back, programmed>>

\* The state of the main loop of pir_af.py.
pirVars == <<pir_pc, pir_status, pir_last_status, first_poll>>

\* What the autofocus engine's operations leave alone.
afFrame == <<fwVars, pipeVars, ctlVars, pirVars>>

\* What the firmware loader's own steps leave alone.
fwFrame == <<cmd, cmdRet, handshakes, zone_focus, pipeVars, ctlVars, pirVars>>

\* What the pipeline controller's operations leave alone.
pipeFrame ==
    <<cmd, cmdRet, polls, sleeps, polled, handshakes, zone_focus, log, regs, fwVars, ctlVars,
      pirVars>>

vars ==
    <<pc, op, cmd, cmdRet, polls, sleeps, polled, handshakes, zone_focus, result, log, regs,
      fwVars, pipeVars, ctlVars, pirVars>>

RegAddrs ==
    {REG_SYS_RESET} \cup (OV5640_CMD_MAIN .. OV5640_CMD_FW_STATUS)
        \cup (REG_AWB_GAIN .. REG_AWB_MANUAL)
        \cup (REG_EXPOSURE .. REG_EXPOSURE + 2)
        \cup {REG_GAIN}

ZoneScores == 0 .. MaxZoneScore

\* The states the coprocessor reports in the firmware status register.
StatusValues ==
    {OV5640_STAT_FIRMWAREBAD, OV5640_STAT_STARTUP, OV5640_STAT_IDLE,
     OV5640_STAT_FOCUSING, OV5640_STAT_FOCUSED}

SensorNames == {"OV5640", "OV2640"}

\* The largest firmware whose every chunk address fits the 2-byte header:
\* the chunk at offset 254 * k is addressed at 0x8000 + 254 * k <= 0xFFFF.
LimitLen == ((65535 - FW_BASE) \div ChunkSize + 1) * ChunkSize

\* The firmware lengths loaded: the short ones, 600, those around each
\* multiple of the chunk size, and those around the largest that fits the
\* addresses.
FwLengths ==
    {0, 1, 2, 92, 600}
        \cup {ChunkSize * k + d : k \in 1 .. MaxFullChunks, d \in {-1, 0, 1}}
        \cup {LimitLen, LimitLen + 1}

\* The image of length n: byte i is a function of i with no period that
\* divides the chunk size, so that a moved or repeated chunk shows.
FirmwareByte(i) == (i - 1) % 251

FirmwareImage(n) == [i \in 1 .. n |-> FirmwareByte(i)]

-----------------------------------------------------------------------------
(* Register bus                                                            *)

Hi(reg) == reg \div 256
Lo(reg) == reg % 256

\* write_camera_register: the 3-byte frame (reg >> 8, reg & 0xFF, value)
WriteFrame(reg, value) == [kind |-> "write", bytes |-> <<Hi(reg), Lo(reg), value>>]

\* read_camera_register: the 2-byte address frame, then one byte read back
ReadFrame(reg) == [kind |-> "read", bytes |-> <<Hi(reg), Lo(reg)>>]

\* The register a frame addresses.
FrameReg(f) == f.bytes[1] * 256 + f.bytes[2]

\* The sensor stores a written byte in the addressed register.
Store(rs, reg, value) == IF reg \in DOMAIN rs THEN [rs EXCEPT ![reg] = value] ELSE rs

\* The positions at which the host's next step is a bus transaction.
BusPcs ==
    {"cmd_ack", "cmd_main", "cmd_poll", "zones", "fw_reset", "fw_chunk", "list", "fw_poll",
     "writes", "vcm_read", "reads"}

BusErrorAbsorbed ==
    /\ pc \in BusPcs
    /\ pc \in {"cmd_poll", "fw_poll"} => polls < PollBudget
    /\ pc = "list" => reg_list[list_i + 1] # REG_DLY
    /\ IF pc = "cmd_poll"
          THEN /\ pc' = "cmd_ret"
               /\ cmdRet' = "False"
               /\ handshakes' = Append(handshakes, "False")
               /\ UNCHANGED result
          ELSE /\ pc' = "done"
               /\ result' = "OSError"
               /\ UNCHANGED <<cmdRet, handshakes>>
    /\ UNCHANGED <<op, cmd, polls, sleeps, polled, zone_focus, log, regs>>
    /\ UNCHANGED afFrame

\* i2c.write / i2c.readinto raise OSError on a transport failure; nothing in
\* the driver catches it, so the operation ends with the error.
BusError ==
    /\ pc \in BusPcs
    /\ pc \in {"cmd_poll", "fw_poll"} => polls < PollBudget
    /\ pc = "list" => reg_list[list_i + 1] # REG_DLY
    /\ pc' = "done"
    /\ result' = "OSError"
    /\ UNCHANGED <<op, cmd, cmdRet, polls, sleeps, polled, handshakes, zone_focus, log, regs>>
    /\ UNCHANGED afFrame

-----------------------------------------------------------------------------
(* The autofocus coprocessor (environment)                                 *)

Running == pc \notin {"idle", "done"}

\* The coprocessor consumes a command: it clears the acknowledge register.
CoprocAck ==
    /\ Running
    /\ regs[OV5640_CMD_ACK] # 0
    /\ regs' = [regs EXCEPT ![OV5640_CMD_ACK] = 0]
    /\ UNCHANGED <<pc, op, cmd, cmdRet, polls, sleeps, polled, handshakes, zone_focus, result, log>>
    /\ UNCHANGED afFrame

\* The coprocessor reports the focus score of a zone in a parameter register.
\* The host reads a parameter register only at pc = "zones", so a write at any
\* earlier time shows to the host exactly as one made just before the read:
\* the write is taken when the register is the next one the host reads.
CoprocZone ==
    /\ pc = "zones"
    /\ \E v \in ZoneScores :
          /\ regs[OV5640_CMD_PARA0 + Len(zone_focus)] # v
          /\ regs' = [regs EXCEPT ![OV5640_CMD_PARA0 + Len(zone_focus)] = v]
    /\ UNCHANGED <<pc, op, cmd, cmdRet, polls, sleeps, polled, handshakes, zone_focus, result, log>>
    /\ UNCHANGED afFrame

-----------------------------------------------------------------------------
(* _send_autofocus_command                                                 *)

CmdClearAckZero ==
    /\ pc = "cmd_ack"
    /\ log' = Append(log, WriteFrame(OV5640_CMD_ACK, 0))
    /\ regs' = Store(regs, OV5640_CMD_ACK, 0)
    /\ pc' = "cmd_main"
    /\ UNCHANGED <<op, cmd, cmdRet, polls, sleeps, polled, handshakes, zone_focus, result>>
    /\ UNCHANGED afFrame

\* self.write_camera_register(_OV5640_CMD_ACK, 0x01)
CmdClearAck ==
    /\ pc = "cmd_ack"
    /\ log' = Append(log, WriteFrame(OV5640_CMD_ACK, 1))
    /\ regs' = Store(regs, OV5640_CMD_ACK, 1)
    /\ pc' = "cmd_main"
    /\ UNCHANGED <<op, cmd, cmdRet, polls, sleeps, polled, handshakes, zone_focus, result>>
    /\ UNCHANGED afFrame

\* self.write_camera_register(_OV5640_CMD_MAIN, command)
CmdSend ==
    /\ pc = "cmd_main"
    /\ log' = Append(log, WriteFrame(OV5640_CMD_MAIN, cmd))
    /\ regs' = Store(regs, OV5640_CMD_MAIN, cmd)
    /\ pc' = "cmd_poll"
    /\ polls' = 0
    /\ sleeps' = 0
    /\ UNCHANGED <<op, cmd, cmdRet, polled, handshakes, zone_focus, result>>
    /\ UNCHANGED afFrame

\* One iteration of "for _ in range(100)": read the acknowledge register,
\* return True when it is 0, sleep 10 ms otherwise.
CmdPoll ==
    /\ pc = "cmd_poll"
    /\ polls < PollBudget
    /\ polls' = polls + 1
    /\ polled' = regs[OV5640_CMD_ACK]
    /\ IF regs[OV5640_CMD_ACK] = 0
          THEN /\ cmdRet' = "True"
               /\ handshakes' = Append(handshakes, "True")
               /\ pc' = "cmd_ret"
               /\ UNCHANGED sleeps
          ELSE /\ sleeps' = sleeps + 1
               /\ UNCHANGED <<cmdRet, handshakes, pc>>
    /\ UNCHANGED <<op, cmd, zone_focus, result, log, regs>>
    /\ UNCHANGED afFrame

CmdTimeoutEarly ==
    /\ pc = "cmd_poll"
    /\ polls >= PollBudget - 1
    /\ cmdRet' = "False"
    /\ handshakes' = Append(handshakes, "False")
    /\ pc' = "cmd_ret"
    /\ UNCHANGED <<op, cmd, polls, sleeps, polled, zone_focus, result, log, regs>>
    /\ UNCHANGED afFrame

\* The loop is exhausted: return False.
CmdTimeout ==
    /\ pc = "cmd_poll"
    /\ polls >= PollBudget
    /\ cmdRet' = "False"
    /\ handshakes' = Append(handshakes, "False")
    /\ pc' = "cmd_ret"
    /\ UNCHANGED <<op, cmd, polls, sleeps, polled, zone_focus, result, log, regs>>
    /\ UNCHANGED afFrame

-----------------------------------------------------------------------------
(* autofocus                                                               *)

AllFalse == [i \in 1 .. NumZones |-> 0]

\* Entry: the first statement calls _send_autofocus_command(RELEASE_FOCUS).
Autofocus ==
    /\ pc = "idle"
    /\ op' = "autofocus"
    /\ cmd' = OV5640_CMD_RELEASE_FOCUS
    /\ pc' = "cmd_ack"
    /\ UNCHANGED <<cmdRet, polls, sleeps, polled, handshakes, zone_focus, result, log, regs>>
    /\ UNCHANGED afFrame

AutofocusReleasedNoCheck ==
    /\ pc = "cmd_ret"
    /\ op = "autofocus"
    /\ cmd = OV5640_CMD_RELEASE_FOCUS
    /\ cmd' = OV5640_CMD_TRIGGER_AUTOFOCUS
    /\ cmdRet' = "none"
    /\ pc' = "cmd_ack"
    /\ UNCHANGED <<op, zone_focus, result, polls, sleeps, polled, handshakes, log, regs>>
    /\ UNCHANGED afFrame

\* if not self._send_autofocus_command(RELEASE_FOCUS, ...): return [False] * 5
AutofocusReleased ==
    /\ pc = "cmd_ret"
    /\ op = "autofocus"
    /\ cmd = OV5640_CMD_RELEASE_FOCUS
    /\ IF cmdRet = "False"
          THEN /\ zone_focus' = AllFalse
               /\ result' = "returned"
               /\ pc' = "done"
               /\ UNCHANGED <<cmd, cmdRet>>
          ELSE /\ cmd' = OV5640_CMD_TRIGGER_AUTOFOCUS
               /\ cmdRet' = "none"
               /\ pc' = "cmd_ack"
               /\ UNCHANGED <<zone_focus, result>>
    /\ UNCHANGED <<op, polls, sleeps, polled, handshakes, log, regs>>
    /\ UNCHANGED afFrame

\* if not self._send_autofocus_command(TRIGGER_AUTOFOCUS, ...): return [False] * 5
AutofocusTriggered ==
    /\ pc = "cmd_ret"
    /\ op = "autofocus"
    /\ cmd = OV5640_CMD_TRIGGER_AUTOFOCUS
    /\ IF cmdRet = "False"
          THEN /\ zone_focus' = AllFalse
               /\ result' = "returned"
               /\ pc' = "done"
          ELSE /\ zone_focus' = <<>>
               /\ pc' = "zones"
               /\ UNCHANGED result
    /\ UNCHANGED <<op, cmd, cmdRet, polls, sleeps, polled, handshakes, log, regs>>
    /\ UNCHANGED afFrame

AutofocusReadZoneReversed ==
    /\ pc = "zones"
    /\ LET i == Len(zone_focus)
           reg == OV5640_CMD_PARA4 - i
       IN /\ log' = Append(log, ReadFrame(reg))
          /\ zone_focus' = Append(zone_focus, regs[reg])
          /\ IF i + 1 = NumZones
                THEN /\ pc' = "done"
                     /\ result' = "returned"
                ELSE UNCHANGED <<pc, result>>
    /\ UNCHANGED <<op, cmd, cmdRet, polls, sleeps, polled, handshakes, regs>>
    /\ UNCHANGED afFrame

\* zone_focus = [self.read_camera_register(_OV5640_CMD_PARA0 + i) for i in range(5)]
AutofocusReadZone ==
    /\ pc = "zones"
    /\ LET i == Len(zone_focus)
           reg == OV5640_CMD_PARA0 + i
       IN /\ log' = Append(log, ReadFrame(reg))
          /\ zone_focus' = Append(zone_focus, regs[reg])
          /\ IF i + 1 = NumZones
                THEN /\ pc' = "done"
                     /\ result' = "returned"
                ELSE UNCHANGED <<pc, result>>
    /\ UNCHANGED <<op, cmd, cmdRet, polls, sleeps, polled, handshakes, regs>>
    /\ UNCHANGED afFrame

-----------------------------------------------------------------------------
(* autofocus_vcm_step                                                      *)

\* Python values that are None or a list of ints; an int is a list of one.
None == [none |-> TRUE, val |-> <<>>]
Val(s) == [none |-> FALSE, val |-> s]

\* The operations that program a setting of the sensor.
SetterOps == {"set_camera_wb", "set_camera_exposure", "set_camera_gain"}

\* The next write_camera_register call of straight-line code.  After the
\* last one the VCM step setter calls _send_autofocus_command(SET_VCM_STEP);
\* the set_camera_* operations return.
WriteNext ==
    /\ pc = "writes"
    /\ todo # <<>>
    /\ log' = Append(log, WriteFrame(todo[1][1], todo[1][2]))
    /\ regs' = Store(regs, todo[1][1], todo[1][2])
    /\ todo' = Tail(todo)
    /\ IF Tail(todo) # <<>>
          THEN UNCHANGED <<pc, cmd, result>>
          ELSE IF op = "autofocus_vcm_step.setter"
                 THEN /\ cmd' = OV5640_CMD_AF_SET_VCM_STEP
                      /\ pc' = "cmd_ack"
                      /\ UNCHANGED result
                 ELSE /\ pc' = "done"
                      /\ result' = "returned"
                      /\ UNCHANGED cmd
    /\ IF Tail(todo) = <<>> /\ op \in SetterOps
          THEN programmed' = [programmed EXCEPT ![op] = param]
          ELSE UNCHANGED programmed
    /\ UNCHANGED <<op, cmdRet, polls, sleeps, polled, handshakes, zone_focus>>
    /\ UNCHANGED <<whitebal, exposure_ctrl, gain_ctrl, param, ret, read_back>>
    /\ UNCHANGED <<fwVars, pipeVars, pirVars>>

VcmWritesSwapped(step) == << <<OV5640_CMD_PARA4, step>>, <<OV5640_CMD_PARA3, 0>> >>

\* write_camera_register(PARA3, 0x00); write_camera_register(PARA4, step)
VcmWrites(step) == << <<OV5640_CMD_PARA3, 0>>, <<OV5640_CMD_PARA4, step>> >>

\* The setter: "if not 0 <= step <= 255: raise RuntimeError", then the two
\* parameter writes.
VcmSet(step) ==
    /\ pc = "idle"
    /\ op' = "autofocus_vcm_step.setter"
    /\ param' = Val(<<step>>)
    /\ IF ~(0 <= step /\ step <= 255)
          THEN /\ pc' = "done"
               /\ result' = "RuntimeError: VCM step must be 0 to 255"
               /\ UNCHANGED todo
          ELSE /\ pc' = "writes"
               /\ todo' = VcmWrites(step)
               /\ UNCHANGED result
    /\ UNCHANGED <<cmd, cmdRet, polls, sleeps, polled, handshakes, zone_focus, log, regs>>
    /\ UNCHANGED <<whitebal, exposure_ctrl, gain_ctrl, ret, read_back, programmed>>
    /\ UNCHANGED <<fwVars, pipeVars, pirVars>>

\* The setter ignores what _send_autofocus_command returns.
VcmSetReturned ==
    /\ pc = "cmd_ret"
    /\ op = "autofocus_vcm_step.setter"
    /\ pc' = "done"
    /\ result' = "returned"
    /\ UNCHANGED <<op, cmd, cmdRet, polls, sleeps, polled, handshakes, zone_focus, log, regs>>
    /\ UNCHANGED afFrame

\* The getter: its first statement calls _send_autofocus_command(GET_VCM_STEP).
VcmGet ==
    /\ pc = "idle"
    /\ op' = "autofocus_vcm_step"
    /\ cmd' = OV5640_CMD_AF_GET_VCM_STEP
    /\ pc' = "cmd_ack"
    /\ UNCHANGED <<cmdRet, polls, sleeps, polled, handshakes, zone_focus, result, log, regs>>
    /\ UNCHANGED afFrame

\* if not self._send_autofocus_command(GET_VCM_STEP, ...): return None
VcmGetReturned ==
    /\ pc = "cmd_ret"
    /\ op = "autofocus_vcm_step"
    /\ IF cmdRet = "False"
          THEN /\ ret' = None
               /\ result' = "returned"
               /\ pc' = "done"
          ELSE /\ pc' = "vcm_read"
               /\ UNCHANGED <<ret, result>>
    /\ UNCHANGED <<op, cmd, cmdRet, polls, sleeps, polled, handshakes, zone_focus, log, regs>>
    /\ UNCHANGED <<whitebal, exposure_ctrl, gain_ctrl, param, todo, read_back, programmed>>
    /\ UNCHANGED <<fwVars, pipeVars, pirVars>>

\* return self.read_camera_register(_OV5640_CMD_PARA4)
VcmRead ==
    /\ pc = "vcm_read"
    /\ log' = Append(log, ReadFrame(OV5640_CMD_PARA4))
    /\ ret' = Val(<<regs[OV5640_CMD_PARA4]>>)
    /\ result' = "returned"
    /\ pc' = "done"
    /\ UNCHANGED <<op, cmd, cmdRet, polls, sleeps, polled, handshakes, zone_focus, regs>>
    /\ UNCHANGED <<whitebal, exposure_ctrl, gain_ctrl, param, todo, read_back, programmed>>
    /\ UNCHANGED <<fwVars, pipeVars, pirVars>>

\* The lens positions the setter is called with: the ends of the range and
\* the first values outside it.
VcmSteps == {-1, 0, 255, 256}

\* The coprocessor answers GET_VCM_STEP: it puts the lens position in PARA4
\* before the host reads it.
CoprocVcm ==
    /\ pc = "vcm_read"
    /\ \E v \in VcmSteps \cap (0 .. 255) :
          /\ regs[OV5640_CMD_PARA4] # v
          /\ regs' = [regs EXCEPT ![OV5640_CMD_PARA4] = v]
    /\ UNCHANGED <<pc, op, cmd, cmdRet, polls, sleeps, polled, handshakes, zone_focus, result, log>>
    /\ UNCHANGED afFrame

-----------------------------------------------------------------------------
(* Exposure, gain and white balance                                        *)

\* The registers get_camera_autosettings reads, in the order it reads them:
\* exposure, white balance, gain.
AutoSettingsRegs ==
    << REG_EXPOSURE, REG_EXPOSURE + 1, REG_EXPOSURE + 2,
       REG_AWB_GAIN, REG_AWB_GAIN + 1, REG_AWB_GAIN + 2,
       REG_AWB_GAIN + 3, REG_AWB_GAIN + 4, REG_AWB_GAIN + 5,
       REG_GAIN >>

\* (r(0x3500) << 12) + (r(0x3501) << 4) + (r(0x3502) >> 4)
DecodeExposure(b0, b1, b2) == b0 * 4096 + b1 * 16 + b2 \div 16

\* settings = {"gain": ..., "exposure": ..., "wb": [...]}, as the list
\* gain, exposure, then the six white balance bytes
Settings(bytes) ==
    <<bytes[10], DecodeExposure(bytes[1], bytes[2], bytes[3])>> \o SubSeq(bytes, 4, 9)

GetCameraAutosettings ==
    /\ pc = "idle"
    /\ op' = "get_camera_autosettings"
    /\ pc' = "reads"
    /\ UNCHANGED <<cmd, cmdRet, polls, sleeps, polled, handshakes, zone_focus, result, log, regs>>
    /\ UNCHANGED afFrame

\* The next read_camera_register call of get_camera_autosettings; after the
\* last one the settings are returned.
ReadNext ==
    /\ pc = "reads"
    /\ LET reg == AutoSettingsRegs[Len(read_back) + 1]
           bytes == Append(read_back, regs[reg])
       IN /\ log' = Append(log, ReadFrame(reg))
          /\ read_back' = bytes
          /\ IF Len(bytes) = Len(AutoSettingsRegs)
                THEN /\ ret' = Val(Settings(bytes))
                     /\ result' = "returned"
                     /\ pc' = "done"
                ELSE UNCHANGED <<ret, result, pc>>
    /\ UNCHANGED <<op, cmd, cmdRet, polls, sleeps, polled, handshakes, zone_focus, regs>>
    /\ UNCHANGED <<whitebal, exposure_ctrl, gain_ctrl, param, todo, programmed>>
    /\ UNCHANGED <<fwVars, pipeVars, pirVars>>

\* The writes of set_camera_wb: 0x3212 := 0x03, 0x3406 := 0x01, the values
\* to 0x3400 + i, 0x3212 := 0x13, 0x3212 := 0xA3
WbWrites(values) ==
    << <<REG_GROUP_ACCESS, 3>>, <<REG_AWB_MANUAL, 1>> >>
        \o [i \in 1 .. Len(values) |-> <<REG_AWB_GAIN + i - 1, values[i]>>]
        \o << <<REG_GROUP_ACCESS, 19>>, <<REG_GROUP_ACCESS, 163>> >>

SetCameraWbLateCheck(v) ==
    /\ pc = "idle"
    /\ op' = "set_camera_wb"
    /\ param' = v
    /\ programmed' = [programmed EXCEPT !["set_camera_wb"] = None]
    /\ IF v.none
          THEN /\ whitebal' = "True"
               /\ pc' = "done"
               /\ result' = "returned"
               /\ UNCHANGED todo
          ELSE /\ whitebal' = "False"
               /\ IF Len(v.val) # 6
                     THEN /\ pc' = "done"
                          /\ result' = "RuntimeError: Please pass in 0x3400~0x3405 inclusive!"
                          /\ UNCHANGED todo
                     ELSE /\ pc' = "writes"
                          /\ todo' = WbWrites(v.val)
                          /\ UNCHANGED result
    /\ UNCHANGED <<cmd, cmdRet, polls, sleeps, polled, handshakes, zone_focus, log, regs>>
    /\ UNCHANGED <<exposure_ctrl, gain_ctrl, ret, read_back>>
    /\ UNCHANGED <<fwVars, pipeVars, pirVars>>

\* set_camera_wb: None turns automatic white balance on; a list must have
\* six values and is written to the registers.  self.camera.whitebal is
\* assigned in the None branch only.
SetCameraWb(v) ==
    /\ pc = "idle"
    /\ op' = "set_camera_wb"
    /\ param' = v
    /\ programmed' = [programmed EXCEPT !["set_camera_wb"] = None]
    /\ IF v.none
          THEN /\ whitebal' = "True"
               /\ pc' = "done"
               /\ result' = "returned"
               /\ UNCHANGED todo
          ELSE /\ IF Len(v.val) # 6
                     THEN /\ pc' = "done"
                          /\ result' = "RuntimeError: Please pass in 0x3400~0x3405 inclusive!"
                          /\ UNCHANGED todo
                     ELSE /\ pc' = "writes"
                          /\ todo' = WbWrites(v.val)
                          /\ UNCHANGED result
               /\ UNCHANGED whitebal
    /\ UNCHANGED <<cmd, cmdRet, polls, sleeps, polled, handshakes, zone_focus, log, regs>>
    /\ UNCHANGED <<exposure_ctrl, gain_ctrl, ret, read_back>>
    /\ UNCHANGED <<fwVars, pipeVars, pirVars>>

ExposureWritesNoShift(v) ==
    << <<REG_EXPOSURE, (v \div 4096) % 256>>,
       <<REG_EXPOSURE + 1, (v \div 16) % 256>>,
       <<REG_EXPOSURE + 2, v % 256>> >>

\* 0x3500 := (v >> 12) & 0xFF, 0x3501 := (v >> 4) & 0xFF, 0x3502 := (v << 4) & 0xFF
ExposureWrites(v) ==
    << <<REG_EXPOSURE, (v \div 4096) % 256>>,
       <<REG_EXPOSURE + 1, (v \div 16) % 256>>,
       <<REG_EXPOSURE + 2, (v * 16) % 256>> >>

\* set_camera_exposure: None turns automatic exposure on; a value turns it
\* off and is written to the three exposure registers.
SetCameraExposure(v) ==
    /\ pc = "idle"
    /\ op' = "set_camera_exposure"
    /\ param' = v
    /\ programmed' = [programmed EXCEPT !["set_camera_exposure"] = None]
    /\ IF v.none
          THEN /\ exposure_ctrl' = "True"
               /\ pc' = "done"
               /\ result' = "returned"
               /\ UNCHANGED todo
          ELSE /\ exposure_ctrl' = "False"
               /\ pc' = "writes"
               /\ todo' = ExposureWrites(v.val[1])
               /\ UNCHANGED result
    /\ UNCHANGED <<cmd, cmdRet, polls, sleeps, polled, handshakes, zone_focus, log, regs>>
    /\ UNCHANGED <<whitebal, gain_ctrl, ret, read_back>>
    /\ UNCHANGED <<fwVars, pipeVars, pirVars>>

\* set_camera_gain: None turns automatic gain on; a value turns it off and
\* is written to 0x350B.
SetCameraGain(v) ==
    /\ pc = "idle"
    /\ op' = "set_camera_gain"
    /\ param' = v
    /\ programmed' = [programmed EXCEPT !["set_camera_gain"] = None]
    /\ IF v.none
          THEN /\ gain_ctrl' = "True"
               /\ pc' = "done"
               /\ result' = "returned"
               /\ UNCHANGED todo
          ELSE /\ gain_ctrl' = "False"
               /\ pc' = "writes"
               /\ todo' = << <<REG_GAIN, v.val[1]>> >>
               /\ UNCHANGED result
    /\ UNCHANGED <<cmd, cmdRet, polls, sleeps, polled, handshakes, zone_focus, log, regs>>
    /\ UNCHANGED <<whitebal, exposure_ctrl, ret, read_back>>
    /\ UNCHANGED <<fwVars, pipeVars, pirVars>>

\* The exposure values set: every value whose bits 12-19, 4-11 and 0-3 are
\* each all zeros, all ones or a pattern (0, 0xFFFFF and 0x12345 among
\* them), and the first value that does not fit 20 bits.
ExposureValues ==
    {a * 4096 + b * 16 + c : a \in {0, 18, 255}, b \in {0, 52, 255}, c \in {0, 5, 15}}
        \cup {1048576}

GainValues == {0, 255}

\* White balance lists: one of six bytes, and lists of 0, 5 and 7 values.
WbLists == { <<15, 255, 1, 2, 3, 128>>, <<>>, <<1, 2, 3, 4, 5>>, <<1, 2, 3, 4, 5, 6, 7>> }

-----------------------------------------------------------------------------
(* write_camera_list                                                       *)

Sleep(ms) == [kind |-> "sleep", bytes |-> <<ms>>]

\* The registers and values of the lists write_camera_list is called with.
ListRegs == {OV5640_CMD_MAIN, REG_SYS_RESET, REG_DLY}

ListValues == {0, 5}

Pair(i) == (i + 1) \div 2

\* The lists of n (register, value) pairs
RegLists(n) ==
    { [i \in 1 .. 2 * n |-> IF i % 2 = 1 THEN ps[Pair(i)][1] ELSE ps[Pair(i)][2]] :
        ps \in [1 .. n -> ListRegs \X ListValues] }

\* Entry of write_camera_list: an empty list ends the loop at once.
WriteCameraList(list) ==
    /\ pc = "idle"
    /\ op' = "write_camera_list"
    /\ reg_list' = list
    /\ list_i' = 0
    /\ IF Len(list) = 0
          THEN /\ pc' = "done"
               /\ result' = "returned"
          ELSE /\ pc' = "list"
               /\ UNCHANGED result
    /\ UNCHANGED <<polls, sleeps, polled, log, regs, sensor_name, fw_len, offset>>
    /\ UNCHANGED fwFrame

WriteCameraListStepNoDelay ==
    /\ pc = "list"
    /\ list_i < Len(reg_list)
    /\ LET register == reg_list[list_i + 1]
           value == reg_list[list_i + 2]
       IN /\ log' = Append(log, WriteFrame(register, value))
          /\ regs' = Store(regs, register, value)
    /\ list_i' = list_i + 2
    /\ IF list_i + 2 < Len(reg_list)
          THEN UNCHANGED <<pc, polls, sleeps, result>>
          ELSE IF op = "write_camera_list"
                 THEN /\ pc' = "done"
                      /\ result' = "returned"
                      /\ UNCHANGED <<polls, sleeps>>
                 ELSE /\ pc' = "fw_poll"
                      /\ polls' = 0
                      /\ sleeps' = 0
                      /\ UNCHANGED result
    /\ UNCHANGED <<op, polled, sensor_name, fw_len, offset, reg_list>>
    /\ UNCHANGED fwFrame

\* One iteration of "for i in range(0, len(reg_list), 2)": a pair whose
\* register is _REG_DLY sleeps value milliseconds, any other pair is written.
\* After the last pair write_camera_list returns; when the firmware loader
\* made the call, autofocus_init_from_bitstream enters its status poll loop.
WriteCameraListStep ==
    /\ pc = "list"
    /\ list_i < Len(reg_list)
    /\ LET register == reg_list[list_i + 1]
           value == reg_list[list_i + 2]
       IN IF register = REG_DLY
             THEN /\ log' = Append(log, Sleep(value))
                  /\ UNCHANGED regs
             ELSE /\ log' = Append(log, WriteFrame(register, value))
                  /\ regs' = Store(regs, register, value)
    /\ list_i' = list_i + 2
    /\ IF list_i + 2 < Len(reg_list)
          THEN UNCHANGED <<pc, polls, sleeps, result>>
          ELSE IF op = "write_camera_list"
                 THEN /\ pc' = "done"
                      /\ result' = "returned"
                      /\ UNCHANGED <<polls, sleeps>>
                 ELSE /\ pc' = "fw_poll"
                      /\ polls' = 0
                      /\ sleeps' = 0
                      /\ UNCHANGED result
    /\ UNCHANGED <<op, polled, sensor_name, fw_len, offset, reg_list>>
    /\ UNCHANGED fwFrame

-----------------------------------------------------------------------------
(* autofocus_init_from_bitstream                                           *)

FinalizeReordered ==
    << 12322, 0, 12323, 0, 12324, 0, 12325, 0, 12326, 0, 12327, 0, 12328, 0,
       12288, 0, 12329, 127 >>

\* _finalize_firmware_load
FinalizeFirmwareLoad ==
    << 12322, 0, 12323, 0, 12324, 0, 12325, 0, 12326, 0, 12327, 0, 12328, 0,
       12329, 127, 12288, 0 >>

Min(a, b) == IF a < b THEN a ELSE b

ChunkFrameShort(len, off) ==
    LET num_firmware_bytes == Min(ChunkSize, len - off)
        reg == off + FW_BASE
    IN [kind |-> "burst",
        bytes |-> <<(reg \div 256) % 256, reg % 256>>,
        slice |-> <<off, off + num_firmware_bytes - 1>>]

\* What one iteration of the chunk loop hands to i2c.write(arr, end=2 + n):
\* arr[0] = reg >> 8, arr[1] = reg & 0xFF, then the n bytes
\* firmware[offset : offset + n], kept in the log as the bounds of that slice.
\* A bytearray element holds 8 bits: reg >> 8 is stored modulo 256 by a build
\* that does not range-check the store (FwChunkValueError is the other build).
ChunkFrame(len, off) ==
    LET num_firmware_bytes == Min(ChunkSize, len - off)
        reg == off + FW_BASE
    IN [kind |-> "burst",
        bytes |-> <<(reg \div 256) % 256, reg % 256>>,
        slice |-> <<off, off + num_firmware_bytes>>]

\* Where the load goes once "for offset in range(0, len(firmware), 254)" has
\* nothing left at off: write_camera_list(self._finalize_firmware_load).
AfterChunks(off) ==
    IF off < fw_len
       THEN /\ pc' = "fw_chunk"
            /\ UNCHANGED <<reg_list, list_i>>
       ELSE /\ pc' = "list"
            /\ reg_list' = FinalizeFirmwareLoad
            /\ list_i' = 0

AutofocusInitFromBitstreamUnchecked(len) ==
    /\ pc = "idle"
    /\ op' = "autofocus_init"
    /\ fw_len' = len
    /\ pc' = "fw_reset"
    /\ UNCHANGED <<result, polls, sleeps, polled, log, regs, sensor_name, offset, reg_list, list_i>>
    /\ UNCHANGED fwFrame

\* The sensor is checked first: on another sensor the call raises.
AutofocusInitFromBitstream(len) ==
    /\ pc = "idle"
    /\ op' = "autofocus_init"
    /\ fw_len' = len
    /\ IF sensor_name # "OV5640"
          THEN /\ pc' = "done"
               /\ result' = "RuntimeError: Autofocus not supported"
          ELSE /\ pc' = "fw_reset"
               /\ UNCHANGED result
    /\ UNCHANGED <<polls, sleeps, polled, log, regs, sensor_name, offset, reg_list, list_i>>
    /\ UNCHANGED fwFrame

\* self.write_camera_register(0x3000, 0x20); time.sleep(0.01)
FwReset ==
    /\ pc = "fw_reset"
    /\ log' = log \o <<WriteFrame(REG_SYS_RESET, FW_RESET_VALUE), Sleep(10)>>
    /\ regs' = Store(regs, REG_SYS_RESET, FW_RESET_VALUE)
    /\ offset' = 0
    /\ AfterChunks(0)
    /\ UNCHANGED <<op, polls, sleeps, polled, result, sensor_name, fw_len>>
    /\ UNCHANGED fwFrame

\* One iteration of the chunk loop: one i2c.write of header and payload.
FwChunk ==
    /\ pc = "fw_chunk"
    /\ log' = Append(log, ChunkFrame(fw_len, offset))
    /\ offset' = offset + ChunkSize
    /\ AfterChunks(offset + ChunkSize)
    /\ UNCHANGED <<op, polls, sleeps, polled, result, regs, sensor_name, fw_len>>
    /\ UNCHANGED fwFrame

\* arr[0] = reg >> 8 with reg >> 8 > 255: a build that range-checks the
\* bytearray store raises ValueError, and the load ends there.
FwChunkValueError ==
    /\ pc = "fw_chunk"
    /\ (offset + FW_BASE) \div 256 > 255
    /\ pc' = "done"
    /\ result' = "ValueError"
    /\ UNCHANGED <<op, polls, sleeps, polled, log, regs, fwVars>>
    /\ UNCHANGED fwFrame

FwPollForBad ==
    /\ pc = "fw_poll"
    /\ polls < PollBudget
    /\ polls' = polls + 1
    /\ polled' = regs[OV5640_CMD_FW_STATUS]
    /\ IF regs[OV5640_CMD_FW_STATUS] = OV5640_STAT_FIRMWAREBAD
          THEN /\ result' = "returned"
               /\ pc' = "done"
               /\ UNCHANGED sleeps
          ELSE /\ sleeps' = sleeps + 1
               /\ UNCHANGED <<result, pc>>
    /\ UNCHANGED <<op, log, regs, fwVars>>
    /\ UNCHANGED fwFrame

\* One iteration of "for _ in range(100)": read autofocus_status, break when
\* it is idle (the method then returns), sleep 10 ms otherwise.
FwPoll ==
    /\ pc = "fw_poll"
    /\ polls < PollBudget
    /\ polls' = polls + 1
    /\ polled' = regs[OV5640_CMD_FW_STATUS]
    /\ IF regs[OV5640_CMD_FW_STATUS] = OV5640_STAT_IDLE
          THEN /\ result' = "returned"
               /\ pc' = "done"
               /\ UNCHANGED sleeps
          ELSE /\ sleeps' = sleeps + 1
               /\ UNCHANGED <<result, pc>>
    /\ UNCHANGED <<op, log, regs, fwVars>>
    /\ UNCHANGED fwFrame

\* The else of the for loop: raise RuntimeError("Timed out ...").
FwTimeout ==
    /\ pc = "fw_poll"
    /\ polls >= PollBudget
    /\ result' = "RuntimeError: Timed out"
    /\ pc' = "done"
    /\ UNCHANGED <<op, polls, sleeps, polled, log, regs, fwVars>>
    /\ UNCHANGED fwFrame

\* The coprocessor reports its state in the firmware status register.  The
\* host reads the register only at pc = "fw_poll"; see CoprocZone.
CoprocStatus ==
    /\ pc = "fw_poll"
    /\ \E v \in StatusValues :
          /\ regs[OV5640_CMD_FW_STATUS] # v
          /\ regs' = [regs EXCEPT ![OV5640_CMD_FW_STATUS] = v]
    /\ UNCHANGED <<pc, op, polls, sleeps, polled, result, log, fwVars>>
    /\ UNCHANGED fwFrame

-----------------------------------------------------------------------------
(* Sensor pipeline controller                                              *)

resolutions ==
    << "240x240", "320x240", "640x480", "800x600", "1024x768", "1280x720", "1280x1024",
       "1600x1200", "1920x1080", "2048x1536", "2560x1440", "2560x1600", "2560x1920" >>

resolution_to_frame_size_shifted ==
    << "HQVGA", "R240X240", "QVGA", "VGA", "SVGA", "XGA", "HD", "SXGA", "UXGA", "FHD",
       "QXGA", "QHD", "WQXGA" >>

resolution_to_frame_size ==
    << "R240X240", "QVGA", "VGA", "SVGA", "XGA", "HD", "SXGA", "UXGA", "FHD", "QXGA",
       "QHD", "WQXGA", "QSXGA" >>

\* The arguments the resolution setter is called with.
NoArg == [type |-> "none", str |-> "", int |-> 0]
StrArg(s) == [type |-> "str", str |-> s, int |-> 0]
IntArg(n) == [type |-> "int", str |-> "", int |-> n]
FloatArg == [type |-> "float", str |-> "", int |-> 0]

\* Strings that are not in the table: the empty one, entries the table has
\* commented out, and near misses of an entry.
OtherNames == {"", "160x120", "800X600", "800x600 ", "800"}

Selectors ==
    {StrArg(resolutions[i]) : i \in 1 .. Len(resolutions)}
        \cup {StrArg(s) : s \in OtherNames}
        \cup {IntArg(n) : n \in -MaxIndex .. MaxIndex}
        \cup {FloatArg}

\* res in self.resolutions
InTable(name) == \E i \in 1 .. Len(resolutions) : resolutions[i] = name

IndexFromOne(name) == CHOOSE i \in 1 .. Len(resolutions) : resolutions[i] = name

\* self.resolutions.index(res): the 0-based position of the first match
Index(name) == (CHOOSE i \in 1 .. Len(resolutions) : resolutions[i] = name) - 1

\* The remainder of a division that truncates towards zero.
TruncMod(a, n) == IF a >= 0 THEN a % n ELSE 0 - ((0 - a) % n)

\* Python's a % n for n > 0: the result is in 0 .. n - 1
PyMod(a, n) == a % n

\* (res + len(self.resolutions)) % len(self.resolutions)
Wrap(n) == PyMod(n + Len(resolutions), Len(resolutions))

\* The resolution setter.  A string is looked up in the table (RuntimeError
\* when it is not there) and replaced by its index; an int is wrapped and
\* stored; any other argument is ignored.
SetResolution(arg) ==
    /\ pc = "idle"
    /\ op' = "resolution.setter"
    /\ res' = arg
    /\ pc' = "done"
    /\ IF arg.type = "str" /\ ~InTable(arg.str)
          THEN /\ result' = "RuntimeError: Invalid Resolution"
               /\ UNCHANGED <<resolution, selected>>
          ELSE /\ result' = "returned"
               /\ IF arg.type \in {"str", "int"}
                     THEN /\ resolution' =
                                Wrap(IF arg.type = "str" THEN Index(arg.str) ELSE arg.int)
                          /\ selected' = arg
                     ELSE UNCHANGED <<resolution, selected>>
    /\ UNCHANGED <<pixel_format, frame_size, calls>>
    /\ UNCHANGED pipeFrame

CameraCall(name, fmt, size) == [call |-> name, pixel_format |-> fmt, frame_size |-> size]

\* capture_into_jpeg up to time.sleep(0.1).  The arguments of reconfigure
\* are evaluated first: reading self._resolution raises AttributeError when
\* no setter call has created the attribute.
CaptureReconfigure ==
    /\ pc = "idle"
    /\ op' = "capture_into_jpeg"
    /\ IF resolution = NoAttr
          THEN /\ pc' = "done"
               /\ result' = "AttributeError"
               /\ UNCHANGED <<pixel_format, frame_size, calls>>
          ELSE /\ pixel_format' = "JPEG"
               /\ frame_size' = resolution_to_frame_size[resolution + 1]
               /\ calls' = << CameraCall("reconfigure", "JPEG",
                                          resolution_to_frame_size[resolution + 1]),
                              CameraCall("sleep 100 ms", "JPEG",
                                          resolution_to_frame_size[resolution + 1]) >>
               /\ pc' = "take"
               /\ UNCHANGED result
    /\ UNCHANGED <<resolution, res, selected>>
    /\ UNCHANGED pipeFrame

\* jpeg = self.camera.take(1); return jpeg.  The camera hands out a frame
\* in the format it is configured for, or None.
CaptureTake ==
    /\ pc = "take"
    /\ calls' = Append(calls, CameraCall("take", pixel_format, frame_size))
    /\ result' \in {"frame", "None"}
    /\ pc' = "done"
    /\ UNCHANGED <<op, resolution, pixel_format, frame_size, res, selected>>
    /\ UNCHANGED pipeFrame

\* continuous_capture: return self.camera.take(1)
ContinuousCapture ==
    /\ pc = "idle"
    /\ op' = "continuous_capture"
    /\ calls' = <<CameraCall("take", pixel_format, frame_size)>>
    /\ result' \in {"frame", "None"}
    /\ pc' = "done"
    /\ UNCHANGED <<resolution, pixel_format, frame_size, res, selected>>
    /\ UNCHANGED pipeFrame

-----------------------------------------------------------------------------

\* The operation has ended and its locals are gone.
Reset ==
    /\ pc = "done"
    /\ pc' = "idle"
    /\ op' = "none"
    /\ cmd' = 0
    /\ cmdRet' = "none"
    /\ polls' = 0
    /\ sleeps' = 0
    /\ polled' = 0
    /\ handshakes' = <<>>
    /\ zone_focus' = <<>>
    /\ result' = "none"
    /\ log' = <<>>
    /\ fw_len' = 0
    /\ offset' = 0
    /\ reg_list' = <<>>
    /\ list_i' = 0
    /\ calls' = <<>>
    /\ res' = NoArg
    /\ param' = None
    /\ ret' = None
    /\ todo' = <<>>
    /\ read_back' = <<>>
    /\ UNCHANGED <<regs, sensor_name, resolution, pixel_format, frame_size, selected>>
    /\ UNCHANGED <<whitebal, exposure_ctrl, gain_ctrl, programmed>>

\* The caller takes the result; the next call starts with fresh locals.
Return == Reset /\ UNCHANGED pirVars

-----------------------------------------------------------------------------
(* pir_af.py                                                               *)

\* How the calls of the driver end without an exception.
Returns == {"returned", "frame", "None"}

\* The script goes on after a call of the driver: after pycam.resolution = 3
\* it enters the main loop, after pycam.autofocus() it calls
\* capture_into_jpeg(), after that it sleeps 10 s and polls again.  An
\* exception of the driver is caught nowhere and ends the script.
PirReturn ==
    /\ pir_pc \in {"start", "autofocus", "capture"}
    /\ Reset
    /\ pir_pc' =
          IF result \notin Returns THEN "crashed"
          ELSE IF pir_pc = "start" THEN "poll"
          ELSE IF pir_pc = "autofocus" THEN "capture"
          ELSE "poll"
    /\ UNCHANGED <<pir_status, pir_last_status, first_poll>>

\* One poll of the main loop: pir_status = pir.value, then the if.  On
\* "pir_status is True and pir_status != pir_last_status" pir_last_status
\* becomes True and capture_send_image() is called; on every other poll
\* the else branch sets pir_last_status to False.
PirPoll(value) ==
    /\ pir_pc = "poll"
    /\ pc = "idle"
    /\ pir_status' = value
    /\ first_poll' = FALSE
    /\ IF value /\ value # pir_last_status
          THEN /\ pir_last_status' = TRUE
               /\ pir_pc' = "autofocus"
          ELSE /\ pir_last_status' = FALSE
               /\ pir_pc' = "poll"
    /\ UNCHANGED <<pc, op, cmd, cmdRet, polls, sleeps, polled, handshakes, zone_focus, result>>
    /\ UNCHANGED <<log, regs, fwVars, pipeVars, ctlVars>>

\* The registers once the firmware is loaded: the command registers hold
\* what the load's final program wrote and the status has been read as idle.
LoadedRegs == [r \in RegAddrs |-> IF r = OV5640_CMD_FW_STATUS THEN OV5640_STAT_IDLE ELSE 0]

\* The state after the constructor has returned, on the sensor called name.
Construct(name) ==
    /\ pc = "idle"
    /\ op = "none"
    /\ cmd = 0
    /\ cmdRet = "none"
    /\ polls = 0
    /\ sleeps = 0
    /\ polled = 0
    /\ handshakes = <<>>
    /\ zone_focus = <<>>
    /\ result = "none"
    /\ log = <<>>
    /\ regs = LoadedRegs
    /\ sensor_name = name
    /\ fw_len = 0
    /\ offset = 0
    /\ reg_list = <<>>
    /\ list_i = 0
    /\ resolution = NoAttr
    /\ pixel_format = "RGB565"
    /\ frame_size = "HQVGA"
    /\ calls = <<>>
    /\ res = NoArg
    /\ selected = NoArg
    /\ whitebal = "default"
    /\ exposure_ctrl = "default"
    /\ gain_ctrl = "default"
    /\ param = None
    /\ ret = None
    /\ todo = <<>>
    /\ read_back = <<>>
    /\ programmed = [o \in SetterOps |-> None]
    /\ pir_pc = "start"
    /\ pir_status = FALSE
    /\ pir_last_status = FALSE
    /\ first_poll = TRUE

\* MyCamera() on the OV5640: init_camera has loaded the autofocus firmware.
Init == Construct("OV5640")

Next ==
    \/ Autofocus
    \/ CmdClearAck
    \/ CmdSend
    \/ CmdPoll
    \/ CmdTimeout
    \/ AutofocusReleased
    \/ AutofocusTriggered
    \/ AutofocusReadZone
    \/ BusError
    \/ CoprocAck
    \/ CoprocZone
    \/ Return

Spec == Init /\ [][Next]_vars

\* MyCamera(init_autofocus=False) on any sensor, then one firmware load.
InitFW == \E name \in SensorNames : Construct(name)

NextFW ==
    \/ \E n \in FwLengths : AutofocusInitFromBitstream(n)
    \/ FwReset
    \/ FwChunk
    \/ FwChunkValueError
    \/ WriteCameraListStep
    \/ FwPoll
    \/ FwTimeout
    \/ BusError
    \/ CoprocStatus

SpecFW == InitFW /\ [][NextFW]_vars

\* The resolution table and the captures, without the autofocus engine.
NextRes ==
    \/ \E arg \in Selectors : SetResolution(arg)
    \/ CaptureReconfigure
    \/ CaptureTake
    \/ ContinuousCapture
    \/ Return

SpecRes == Init /\ [][NextRes]_vars

\* The selections the demo programs make (pycam.resolution = 3), a negative
\* index and a name.
PipeSelectors == {IntArg(3), IntArg(-1), StrArg("640x480")}

\* The outer loop: selections, captures and autofocus calls in any order.
\* The coprocessor acknowledges commands; the zone registers keep the
\* values they have.
NextPipe ==
    \/ \E arg \in PipeSelectors : SetResolution(arg)
    \/ CaptureReconfigure
    \/ CaptureTake
    \/ ContinuousCapture
    \/ Autofocus
    \/ CmdClearAck
    \/ CmdSend
    \/ CmdPoll
    \/ CmdTimeout
    \/ AutofocusReleased
    \/ AutofocusTriggered
    \/ AutofocusReadZone
    \/ BusError
    \/ CoprocAck
    \/ Return

SpecPipe == Init /\ [][NextPipe]_vars

\* The autofocus engine with the lens position getter and setter.
NextVcm ==
    \/ Next
    \/ \E step \in VcmSteps : VcmSet(step)
    \/ WriteNext
    \/ VcmSetReturned
    \/ VcmGet
    \/ VcmGetReturned
    \/ VcmRead
    \/ CoprocVcm

SpecVcm == Init /\ [][NextVcm]_vars

\* Exposure, gain and white balance are switched between automatic and
\* manual control, with one manual value each.
NextCtl ==
    \/ \E v \in {None, Val(<<74565>>)} : SetCameraExposure(v)
    \/ \E v \in {None, Val(<<255>>)} : SetCameraGain(v)
    \/ \E v \in {None} \cup {Val(l) : l \in WbLists} : SetCameraWb(v)
    \/ WriteNext
    \/ BusError
    \/ Return

SpecCtl == Init /\ [][NextCtl]_vars

\* Exposure, gain and white balance are programmed and read back.
NextReadBack ==
    \/ \E e \in ExposureValues : SetCameraExposure(Val(<<e>>))
    \/ \E g \in GainValues : SetCameraGain(Val(<<g>>))
    \/ \E l \in WbLists : SetCameraWb(Val(l))
    \/ WriteNext
    \/ GetCameraAutosettings
    \/ ReadNext
    \/ BusError
    \/ Return

SpecReadBack == Init /\ [][NextReadBack]_vars

\* Register programs are written.
NextList ==
    \/ \E n \in 0 .. MaxPairs : \E list \in RegLists(n) : WriteCameraList(list)
    \/ WriteCameraListStep
    \/ BusError
    \/ Return

SpecList == Init /\ [][NextList]_vars

\* Calls with good and bad arguments: lens positions, white balance lists
\* and resolutions.
ArgSelectors == {IntArg(3), StrArg("800x600"), StrArg("800X600"), StrArg("")}

NextArgs ==
    \/ \E step \in VcmSteps : VcmSet(step)
    \/ \E v \in {None} \cup {Val(l) : l \in WbLists} : SetCameraWb(v)
    \/ \E a \in ArgSelectors : SetResolution(a)
    \/ CaptureReconfigure
    \/ CaptureTake
    \/ WriteNext
    \/ CmdClearAck
    \/ CmdSend
    \/ CmdPoll
    \/ CmdTimeout
    \/ VcmSetReturned
    \/ BusError
    \/ CoprocAck
    \/ Return

SpecArgs == Init /\ [][NextArgs]_vars

\* pir_af.py from "pycam.resolution = 3" on: the main loop polls the PIR
\* and capture_send_image() calls autofocus() and capture_into_jpeg().
NextPir ==
    \/ pir_pc = "start" /\ SetResolution(IntArg(3))
    \/ \E value \in BOOLEAN : PirPoll(value)
    \/ pir_pc = "autofocus" /\ Autofocus
    \/ pir_pc = "capture" /\ CaptureReconfigure
    \/ CaptureTake
    \/ CmdClearAck
    \/ CmdSend
    \/ CmdPoll
    \/ CmdTimeout
    \/ AutofocusReleased
    \/ AutofocusTriggered
    \/ AutofocusReadZone
    \/ BusError
    \/ CoprocAck
    \/ PirReturn

SpecPir == Init /\ [][NextPir]_vars

-----------------------------------------------------------------------------
(* Claims                                                                  *)

HostVars ==
    <<pc, op, cmd, cmdRet, polls, sleeps, polled, handshakes, zone_focus, result, log,
      fw_len, offset, reg_list, list_i, resolution, calls, res, ctlVars, pirVars>>

HostStep ==
    \/ Autofocus
    \/ CmdClearAck
    \/ CmdSend
    \/ CmdPoll
    \/ CmdTimeout
    \/ AutofocusReleased
    \/ AutofocusTriggered
    \/ AutofocusReadZone
    \/ Return

InCommand == pc \in {"cmd_ack", "cmd_main", "cmd_poll"}

\* The state part of C1: what the poll loop has done so far, and what it returned.
C1_PollState ==
    /\ polls <= 100
    /\ (pc = "cmd_poll" /\ polls > 0) => (polled # 0 /\ sleeps = polls)
    /\ (pc = "cmd_ret" /\ cmdRet = "True") =>
          (polls >= 1 /\ polled = 0 /\ sleeps = polls - 1 /\ result = "none")
    /\ (pc = "cmd_ret" /\ cmdRet = "False") =>
          (polls = 100 /\ sleeps = 100 /\ polled # 0 /\ result = "none")
    /\ InCommand => ENABLED HostStep

\* The step part of C1: a poll that reads 0 returns True at once, and every
\* host step inside the loop either leaves the loop or uses up one of its reads.
C1_PollStep ==
    /\ (pc = "cmd_poll" /\ polls' = polls + 1 /\ polled' = 0) =>
          (pc' = "cmd_ret" /\ cmdRet' = "True")
    /\ (pc = "cmd_poll" /\ pc' = "cmd_poll" /\ HostVars' # HostVars) =>
          (polls' = polls + 1 /\ sleeps' = sleeps + 1)
    /\ (pc = "cmd_poll" /\ cmdRet' = "False") => (pc' = "cmd_ret" /\ result' = "none")

\* C1: _send_autofocus_command always terminates.  It returns True at the
\* first poll on which the acknowledge register reads 0; if every poll reads
\* nonzero it returns False after exactly 100 reads, each followed by a 10 ms
\* sleep, never earlier and never later, and the timeout raises no error.
C1_SendCommandBounded == [](C1_PollState) /\ [][C1_PollStep]_vars

\* A command has timed out: 100 reads, all nonzero, and False returned.
C1_Witness == pc = "cmd_ret" /\ cmdRet = "False" /\ polls = 100

MainWrites(c) == {k \in 1 .. Len(log) : log[k] = WriteFrame(OV5640_CMD_MAIN, c)}

ParaReads ==
    {k \in 1 .. Len(log) :
        /\ log[k].kind = "read"
        /\ FrameReg(log[k]) \in OV5640_CMD_PARA0 .. OV5640_CMD_PARA4}

ReleaseFailed == op = "autofocus" /\ Len(handshakes) >= 1 /\ handshakes[1] = "False"

TriggerFailed == op = "autofocus" /\ Len(handshakes) >= 2 /\ handshakes[2] = "False"

\* C2: autofocus() short-circuits.  Once the ReleaseFocus handshake has
\* returned False the opcode 0x03 is never written to 0x3022, no parameter
\* register is read and the call returns five zero scores; once the trigger
\* handshake has returned False no parameter register is read and the call
\* returns five zero scores.
C2_AutofocusShortCircuit ==
    /\ ReleaseFailed =>
          /\ MainWrites(3) = {}
          /\ ParaReads = {}
          /\ pc = "done" => (result = "returned" /\ zone_focus = <<0, 0, 0, 0, 0>>)
    /\ TriggerFailed =>
          /\ ParaReads = {}
          /\ pc = "done" => (result = "returned" /\ zone_focus = <<0, 0, 0, 0, 0>>)
    /\ op = "autofocus" => Len(handshakes) <= 2

\* autofocus() has returned after a failed ReleaseFocus handshake.
C2_Witness == ReleaseFailed /\ pc = "done" /\ result = "returned"

-----------------------------------------------------------------------------
(* Claims on the firmware loader                                           *)

\* The chunk writes issued so far, in order.
Bursts == SelectSeq(log, LAMBDA e : e.kind = "burst")

\* The firmware argument: the image of the length passed.
firmware == FirmwareImage(fw_len)

\* len(firmware[lo : hi]), for 0 <= lo.
SliceLen(lo, hi) == IF Min(hi, fw_len) > lo THEN Min(hi, fw_len) - lo ELSE 0

\* The Python slice firmware[lo : hi].
Slice(lo, hi) == [i \in 1 .. SliceLen(lo, hi) |-> FirmwareByte(lo + i)]

\* The payload bytes of a chunk write, and their number.
Payload(f) == Slice(f.slice[1], f.slice[2])

PayloadLen(f) == SliceLen(f.slice[1], f.slice[2])

\* The number of bytes a chunk write puts on the bus.
FrameLen(f) == Len(f.bytes) + PayloadLen(f)

RECURSIVE ConcatPayloads(_)
ConcatPayloads(fs) ==
    IF fs = <<>> THEN <<>> ELSE Payload(Head(fs)) \o ConcatPayloads(Tail(fs))

\* The load has left the chunk loop without a bus failure.
ChunkLoopLeft ==
    /\ op = "autofocus_init"
    /\ sensor_name = "OV5640"
    /\ \/ pc \in {"list", "fw_poll"}
       \/ pc = "done" /\ result \in {"returned", "RuntimeError: Timed out", "ValueError"}

\* The load has just issued its last chunk write, or has ended.
ChunkLoopJustLeft == ChunkLoopLeft /\ (pc = "done" \/ (pc = "list" /\ list_i = 0))

\* What C3 says of a load whose chunk loop is over.
ChunkingAsClaimed ==
    LET L == fw_len
        bs == Bursts
        n == Len(bs)
    IN /\ n = (L + 253) \div 254
       /\ \A k \in 0 .. n - 1 :
             LET b == bs[k + 1]
             IN /\ Len(b.bytes) = 2
                /\ b.bytes[1] \in 0 .. 255
                /\ b.bytes[2] \in 0 .. 255
                /\ b.bytes[1] * 256 + b.bytes[2] = 32768 + 254 * k
                /\ PayloadLen(b) = IF k < n - 1 THEN 254
                                   ELSE IF L % 254 = 0 THEN 254 ELSE L % 254
       /\ ChunkLoopJustLeft => ConcatPayloads(bs) = firmware
       /\ L = 600 =>
             /\ n = 3
             /\ <<Len(Payload(bs[1])), Len(Payload(bs[2])), Len(Payload(bs[3]))>>
                   = <<254, 254, 92>>
             /\ <<bs[1].bytes, bs[2].bytes, bs[3].bytes>>
                   = << <<128, 0>>, <<128, 254>>, <<129, 252>> >>

\* C3 as stated: for every firmware length L the load issues ceil(L/254)
\* chunk writes, the k-th addressed at 0x8000 + 254*k in a 2-byte big-endian
\* header, all of 254 payload bytes but the last, whose payloads concatenate
\* to the firmware.
C3_ChunkingEveryLength == ChunkLoopLeft => ChunkingAsClaimed

\* C3 amended: the same for every firmware length L <= 33020, the lengths
\* whose chunk addresses all fit in 16 bits; L = 600 gives 254, 254, 92 bytes
\* at 0x8000, 0x80FE, 0x81FC.  While the loop runs, the chunks written so far
\* are the leading chunks of that partition.
C3_Chunking ==
    /\ (ChunkLoopLeft /\ fw_len <= 33020) => ChunkingAsClaimed
    /\ (pc = "fw_chunk" /\ fw_len <= 33020) =>
          LET bs == Bursts
          IN /\ offset = 254 * Len(bs)
             /\ offset < fw_len
             /\ \A k \in 0 .. Len(bs) - 1 :
                   /\ bs[k + 1].bytes[1] * 256 + bs[k + 1].bytes[2] = 32768 + 254 * k
                   /\ FrameLen(bs[k + 1]) = 256

\* A 600-byte firmware has been written in its 3 chunks.
C3_Witness == ChunkLoopLeft /\ fw_len = 600 /\ Len(Bursts) = 3 /\ pc = "list"

\* The register writes of the load after its first one, in order.
WritesAfterReset == SelectSeq(Tail(log), LAMBDA e : e.kind = "write")

\* The same as (register, value) pairs.
Pairs(ws) == [k \in 1 .. Len(ws) |-> <<FrameReg(ws[k]), ws[k].bytes[3]>>]

FinalizationAsClaimed ==
    << <<12322, 0>>, <<12323, 0>>, <<12324, 0>>, <<12325, 0>>, <<12326, 0>>,
       <<12327, 0>>, <<12328, 0>>, <<12329, 127>>, <<12288, 0>> >>

IsPrefix(a, b) == Len(a) <= Len(b) /\ a = SubSeq(b, 1, Len(a))

\* C4: in every firmware load on a supported sensor the reset write
\* (0x3000 := 0x20) comes before every chunk write, every chunk write before
\* the first write of the finalization program, the finalization writes
\* 0x3022..0x3028 := 0, 0x3029 := 0x7F, 0x3000 := 0 in that order, and the
\* firmware status register is not read before the finalization is complete:
\* the bus log of the load is the reset write, the 10 ms wait, the chunk
\* writes and then the finalization writes, with no read among them, and the
\* status polls start only when the finalization writes are all there.
C4_LoadOrdering ==
    (op = "autofocus_init" /\ log # <<>>) =>
        LET ws == WritesAfterReset
        IN /\ log = << [kind |-> "write", bytes |-> <<48, 0, 32>>],
                       [kind |-> "sleep", bytes |-> <<10>>] >> \o Bursts \o ws
           /\ IsPrefix(Pairs(ws), FinalizationAsClaimed)
           /\ (pc = "fw_chunk" \/ pc = "fw_reset") => ws = <<>>
           /\ (polls > 0 \/ pc = "fw_poll" \/ result \in {"returned", "RuntimeError: Timed out"})
                 => Pairs(ws) = FinalizationAsClaimed

\* The status register has been read after a load of several chunks.
C4_Witness ==
    /\ op = "autofocus_init"
    /\ polls > 0
    /\ Len(Bursts) >= 2
    /\ Pairs(WritesAfterReset) = FinalizationAsClaimed

FwHostStep ==
    \/ FwReset
    \/ FwChunk
    \/ WriteCameraListStep
    \/ FwPoll
    \/ FwTimeout

\* The state part of C5.
C5_PollState ==
    op = "autofocus_init" =>
        /\ polls <= 100
        /\ (pc = "fw_poll" /\ polls > 0) => (polled # 112 /\ sleeps = polls)
        /\ result = "returned" => (polls >= 1 /\ polled = 112 /\ sleeps = polls - 1)
        /\ result = "RuntimeError: Timed out" =>
              (polls = 100 /\ sleeps = 100 /\ polled # 112)
        /\ pc \in {"fw_reset", "fw_chunk", "list", "fw_poll"} => ENABLED FwHostStep

\* The step part of C5: a read of 0x70 ends the load normally at once, a
\* read of anything else keeps polling, and the 100 reads used up raise.
C5_PollStep ==
    /\ (pc = "fw_poll" /\ polls' = polls + 1 /\ polled' = 112) =>
          (pc' = "done" /\ result' = "returned")
    /\ (pc = "fw_poll" /\ pc' = "fw_poll" /\ HostVars' # HostVars) =>
          (polls' = polls + 1 /\ sleeps' = sleeps + 1 /\ polled' # 112)
    /\ (pc = "fw_poll" /\ polls = 100 /\ HostVars' # HostVars) =>
          (pc' = "done" /\ result' = "RuntimeError: Timed out")

\* C5: after the finalization the load reads the firmware status register at
\* most 100 times; it returns normally at the first read of 0x70 and raises
\* the timeout error exactly when none of the 100 reads is 0x70; it
\* terminates either way.
C5_LoadCompletion == [](C5_PollState) /\ [][C5_PollStep]_vars

\* The load has timed out on a status register that kept the host's 0x7F.
C5_Witness ==
    /\ result = "RuntimeError: Timed out"
    /\ polls = 100
    /\ polled = 127
    /\ regs[OV5640_CMD_FW_STATUS] = 127

-----------------------------------------------------------------------------
(* Claims on the sensor pipeline controller                                *)

CaptureDone == pc = "done" /\ op = "capture_into_jpeg"

SetterDone == pc = "done" /\ op = "resolution.setter"

TableIndexes == 0 .. Len(resolutions) - 1

\* C6: autofocus() and capture_into_jpeg() need no setup call after the
\* construction of MyCamera: a capture, also one made before any resolution
\* has been selected, returns a frame or None and raises nothing, and an
\* autofocus call raises nothing but a failure of the bus.
C6_CallableAfterInit ==
    /\ CaptureDone => result \in {"frame", "None"}
    /\ (pc = "done" /\ op = "autofocus") => result \in {"returned", "OSError"}

\* The frame size the capture of a selection is claimed to configure, and
\* the agreement of the two ways to select an entry.
SelectionYields(arg, size) ==
    (CaptureDone /\ selected = arg) =>
        /\ frame_size = size
        /\ pixel_format = "JPEG"
        /\ calls[1] = CameraCall("reconfigure", "JPEG", size)

NameAndIndexAgree ==
    \A i \in TableIndexes :
        selected \in {StrArg(resolutions[i + 1]), IntArg(i)} =>
            /\ resolution = i
            /\ CaptureDone => frame_size = resolution_to_frame_size[i + 1]

\* C7 as stated: selecting "800x600" by name and then capturing configures
\* the frame size SVGA, selecting index 2 yields SVGA too, and for every
\* index i of the table the name resolutions[i] and the index i leave the
\* same selection and the same frame size.
C7_ScenarioBIndex2 ==
    /\ SelectionYields(StrArg("800x600"), "SVGA")
    /\ SelectionYields(IntArg(2), "SVGA")
    /\ NameAndIndexAgree

\* C7 as the code has it: "800x600" is entry 3 of the table, so it is the
\* name "800x600" and the index 3 that configure SVGA (index 2 is "640x480"
\* and configures VGA); name and index agree for every entry.
C7_ScenarioB ==
    /\ SelectionYields(StrArg("800x600"), "SVGA")
    /\ SelectionYields(IntArg(3), "SVGA")
    /\ SelectionYields(IntArg(2), "VGA")
    /\ NameAndIndexAgree

C7_Witness ==
    /\ CaptureDone
    /\ selected = IntArg(3)
    /\ result = "frame"
    /\ frame_size = "SVGA"
    /\ resolution = Index("800x600")

\* C8: the resolution setter accepts every int, negative ones and ones
\* larger than the table included: the call returns, the stored selection
\* is the index in [0, table size) congruent to the argument, and so
\* resolution_to_frame_size[_resolution] is a valid lookup whenever a
\* selection has been stored.
C8_IndexTotal ==
    /\ (SetterDone /\ res.type = "int") => (result = "returned" /\ selected = res)
    /\ selected.type = "int" =>
            /\ resolution \in TableIndexes
            /\ \E k \in -MaxIndex .. MaxIndex :
                    selected.int - resolution = k * Len(resolutions)
    /\ resolution # NoAttr => resolution + 1 \in DOMAIN resolution_to_frame_size

C8_Witness ==
    /\ SetterDone
    /\ res.type = "int"
    /\ res.int < 0 - 2 * Len(resolutions)
    /\ result = "returned"
    /\ resolution \in TableIndexes

\* C9: called with a string that is an entry of the table the setter
\* returns and stores the index of that entry; called with any other string
\* it raises RuntimeError("Invalid Resolution").
C9_NameSelection ==
    (SetterDone /\ res.type = "str") =>
        IF \E i \in TableIndexes : resolutions[i + 1] = res.str
          THEN /\ result = "returned"
               /\ resolution \in TableIndexes
               /\ resolutions[resolution + 1] = res.str
          ELSE result = "RuntimeError: Invalid Resolution"

C9_Witness ==
    /\ SetterDone
    /\ res = StrArg("2560x1920")
    /\ result = "returned"
    /\ resolution = Len(resolutions) - 1

\* What a capture that has ended has done on the camera: a reconfigure to
\* JPEG and the frame size of the selection, a pause, then the frame request.
CaptureReconfigured ==
    /\ Len(calls) = 3
    /\ calls[1].call = "reconfigure"
    /\ calls[1].pixel_format = "JPEG"
    /\ calls[1].frame_size = resolution_to_frame_size[resolution + 1]
    /\ calls[3] = CameraCall("take", "JPEG", resolution_to_frame_size[resolution + 1])

SelectionKept == (resolution' # resolution) => (op' = "resolution.setter")

\* C10: every capture_into_jpeg() reconfigures the camera to JPEG and the
\* frame size of the selected resolution before it requests the frame,
\* whatever the camera was configured for, and only the setter changes the
\* selection: captures and autofocus calls leave it as it is.
C10_CaptureReconfigures == [](CaptureDone => CaptureReconfigured) /\ [][SelectionKept]_vars

\* The same for the captures made once a selection has been stored.
CaptureReconfiguresOnceSelected ==
    []((CaptureDone /\ resolution # NoAttr) => CaptureReconfigured) /\ [][SelectionKept]_vars

-----------------------------------------------------------------------------
(* Claims on the lens position and on the command protocol                 *)

VcmSetting == op = "autofocus_vcm_step.setter"

\* The bus transactions of a whole call of the setter with the step s.
VcmSetLog(s) ==
    << WriteFrame(OV5640_CMD_PARA3, 0), WriteFrame(OV5640_CMD_PARA4, s),
       WriteFrame(OV5640_CMD_ACK, 1), WriteFrame(OV5640_CMD_MAIN, OV5640_CMD_AF_SET_VCM_STEP) >>

\* C12: called with a step in [0,255] the VCM step setter writes PARA3 := 0,
\* then PARA4 := step, and only then sends the opcode 0x1A to the main
\* command register: at every point of every call the writes made so far
\* are the first ones of that sequence, the acknowledge poll starts after
\* all of them, and a call that returns has made them all.
C12_VcmSetOrder ==
    (VcmSetting /\ param.val[1] \in 0 .. 255) =>
        /\ IsPrefix(log, VcmSetLog(param.val[1]))
        /\ pc \in {"cmd_poll", "cmd_ret"} => log = VcmSetLog(param.val[1])
        /\ (pc = "done" /\ result = "returned") => log = VcmSetLog(param.val[1])
        /\ pc = "done" => result \in {"returned", "OSError"}

C12_Witness ==
    /\ VcmSetting
    /\ pc = "done"
    /\ result = "returned"
    /\ param = Val(<<255>>)
    /\ handshakes = <<"True">>
    /\ log = VcmSetLog(255)

AllZero(zs) == \A i \in 1 .. Len(zs) : zs[i] = 0

AutofocusReturned == op = "autofocus" /\ pc = "done" /\ result = "returned"

BothHandshakesSucceeded == handshakes = <<"True", "True">>

\* The last five bus transactions are the reads of 0x3024 .. 0x3028 in
\* that order, and zone_focus holds the five values read.
ZonesReadInOrder ==
    /\ Len(zone_focus) = NumZones
    /\ Len(log) >= NumZones
    /\ \A i \in 1 .. NumZones :
          /\ log[Len(log) - NumZones + i] = ReadFrame(OV5640_CMD_PARA0 + i - 1)
          /\ zone_focus[i] = regs[OV5640_CMD_PARA0 + i - 1]

\* C18 as stated: a list of five zeros returned by autofocus() means that
\* one of the two handshakes timed out, and a list with a nonzero element
\* means that both succeeded and that the list holds the values of
\* 0x3024 .. 0x3028 read in that order.
C18_AllZeroMeansTimeout ==
    AutofocusReturned =>
        /\ AllZero(zone_focus) => (\E k \in 1 .. Len(handshakes) : handshakes[k] = "False")
        /\ ~AllZero(zone_focus) => (BothHandshakesSucceeded /\ ZonesReadInOrder)

\* C18 as the code has it: a handshake that timed out gives five zeros and
\* no register read; in every other return both handshakes have succeeded
\* and the list holds the values of 0x3024 .. 0x3028 read in that order,
\* five zeros when all five registers read 0; so a nonzero element means
\* success, and five zeros do not tell a timeout from five zero scores.
C18_ZoneScores ==
    AutofocusReturned =>
        /\ (\E k \in 1 .. Len(handshakes) : handshakes[k] = "False") =>
              (zone_focus = AllFalse /\ ParaReads = {})
        /\ (\A k \in 1 .. Len(handshakes) : handshakes[k] = "True") =>
              (BothHandshakesSucceeded /\ ZonesReadInOrder)
        /\ ~AllZero(zone_focus) => (BothHandshakesSucceeded /\ ZonesReadInOrder)

C18_Witness ==
    /\ AutofocusReturned
    /\ BothHandshakesSucceeded
    /\ zone_focus[2] # 0
    /\ zone_focus[5] = 0

SoftResult ==
    /\ cmdRet = "False" => (polls = PollBudget /\ sleeps = PollBudget /\ polled # 0)
    /\ \A k \in 1 .. Len(handshakes) :
          handshakes[k] = "False" => (k = Len(handshakes) /\ polls = PollBudget)
    /\ (op = "autofocus_vcm_step" /\ pc = "done" /\ result = "returned" /\ ret = None) =>
          handshakes = <<"False">>
    /\ result = "OSError" => pc = "done"

\* A bus failure ends the operation where it is: nothing is returned, no
\* transaction is repeated and no soft result is made up.
HardFailureStep ==
    (result # "OSError" /\ result' = "OSError") =>
        /\ pc \in BusPcs
        /\ pc' = "done"
        /\ UNCHANGED <<cmdRet, handshakes, zone_focus, ret, log, polls, sleeps, regs>>

\* C16 as stated: _send_autofocus_command returns False, autofocus()
\* returns five zero scores and the VCM step getter returns None only when
\* the acknowledge poll budget is exhausted; a bus failure ends the
\* operation with the error, is not retried and yields no such result.
C16_SoftOnlyOnTimeout ==
    /\ [](SoftResult)
    /\ []((AutofocusReturned /\ AllZero(zone_focus)) =>
              (\E k \in 1 .. Len(handshakes) : handshakes[k] = "False"))
    /\ [][HardFailureStep]_vars

\* C16 as the code has it: False and None come from an exhausted poll
\* budget only; autofocus() returns five zero scores when the budget is
\* exhausted or when both handshakes succeeded and all five parameter
\* registers read 0; a bus failure ends the operation with the error, is
\* not retried and yields no such result.
C16_HardSoftSplit ==
    /\ [](SoftResult)
    /\ []((AutofocusReturned /\ AllZero(zone_focus)) =>
              \/ \E k \in 1 .. Len(handshakes) : handshakes[k] = "False"
              \/ BothHandshakesSucceeded /\ ZonesReadInOrder)
    /\ [][HardFailureStep]_vars

\* The bus fails on a poll read of the VCM step getter.
C16_Witness ==
    /\ op = "autofocus_vcm_step"
    /\ pc = "done"
    /\ result = "OSError"
    /\ polls > 0
    /\ handshakes = <<>>
    /\ ret = None

\* Where the host is inside _send_autofocus_command, by what it has written.
HandshakeOrder ==
    /\ pc = "cmd_main" => log[Len(log)] = WriteFrame(OV5640_CMD_ACK, 1)
    /\ pc = "cmd_poll" =>
          /\ log[Len(log) - 1] = WriteFrame(OV5640_CMD_ACK, 1)
          /\ log[Len(log)] = WriteFrame(OV5640_CMD_MAIN, cmd)
    /\ pc \in {"cmd_ack", "cmd_main"} => cmdRet # "True"

HandshakeStep ==
    /\ polls' # polls => (pc = "cmd_poll" \/ pc' \in {"cmd_poll", "idle"})
    /\ (pc = "cmd_ack" /\ pc' = "cmd_main") => regs'[OV5640_CMD_ACK] # 0
    /\ (regs[OV5640_CMD_ACK] # 0 /\ regs'[OV5640_CMD_ACK] = 0) => UNCHANGED HostVars
    /\ (cmdRet # "True" /\ cmdRet' = "True") =>
          (pc = "cmd_poll" /\ regs[OV5640_CMD_ACK] = 0)

\* C20: _send_autofocus_command writes the acknowledge register, then the
\* opcode, and reads the acknowledge register only after both; what it
\* writes to the acknowledge register is not 0, the host never makes it 0,
\* and True is returned only on reading 0: only a coprocessor write after
\* the host's gives True, and without one every command returns False.
C20_HandshakeSound == [](HandshakeOrder) /\ [][HandshakeStep]_vars

\* The coprocessor acknowledged after the host had polled at least once.
C20_Witness ==
    /\ pc = "cmd_ret"
    /\ cmdRet = "True"
    /\ polls > 1
    /\ regs[OV5640_CMD_ACK] = 0
    /\ log[Len(log) - 1] = WriteFrame(OV5640_CMD_ACK, 1)

-----------------------------------------------------------------------------
(* Claims on arguments, register programs and settings                     *)

ArgErrors ==
    { "RuntimeError: VCM step must be 0 to 255",
      "RuntimeError: Please pass in 0x3400~0x3405 inclusive!",
      "RuntimeError: Invalid Resolution" }

\* The call in progress has been given an argument outside its contract.
BadArgument ==
    \/ VcmSetting /\ param.val[1] \notin 0 .. 255
    \/ op = "set_camera_wb" /\ ~param.none /\ Len(param.val) # 6
    \/ op = "resolution.setter" /\ res.type = "str" /\ ~InTable(res.str)

ArgErrorState ==
    /\ BadArgument => (pc = "done" /\ result \in ArgErrors)
    /\ result \in ArgErrors =>
          (BadArgument /\ pc = "done" /\ log = <<>> /\ polls = 0 /\ calls = <<>> /\ todo = <<>>)

ArgErrorStep ==
    (result \notin ArgErrors /\ result' \in ArgErrors) =>
        /\ pc = "idle"
        /\ UNCHANGED <<regs, log, polls, calls>>
        /\ UNCHANGED <<resolution, selected, pixel_format, frame_size>>
        /\ UNCHANGED <<whitebal, exposure_ctrl, gain_ctrl>>

\* C11: a VCM step outside [0,255], a white balance list whose length is
\* not 6 and a resolution name that is not in the table each raise their
\* error in the first step of the call: no bus read or write and no camera
\* call is made, and the resolution selection, the automatic-control flags,
\* the pixel format and the frame size are as they were.
C11_ArgErrorsNoEffect == [](ArgErrorState) /\ [][ArgErrorStep]_vars

\* A white balance list of the wrong length is refused after a selection,
\* a capture and a switch to automatic white balance.
C11_Witness ==
    /\ op = "set_camera_wb"
    /\ result = "RuntimeError: Please pass in 0x3400~0x3405 inclusive!"
    /\ Len(param.val) = 5
    /\ whitebal = "True"
    /\ resolution = 3
    /\ pixel_format = "JPEG"
    /\ log = <<>>

\* C13: a firmware load on a sensor that is not the OV5640 fails with
\* RuntimeError("Autofocus not supported ...") before any bus traffic: no
\* reset write, no chunk write, no finalization write and no status read.
C13_UnsupportedSensor ==
    sensor_name # "OV5640" =>
        /\ log = <<>>
        /\ polls = 0
        /\ regs = LoadedRegs
        /\ pc \in {"idle", "done"}
        /\ pc = "done" => result = "RuntimeError: Autofocus not supported"

C13_Witness ==
    /\ sensor_name = "OV2640"
    /\ op = "autofocus_init"
    /\ pc = "done"
    /\ fw_len > ChunkSize
    /\ result = "RuntimeError: Autofocus not supported"
    /\ log = <<>>

\* What the first k pairs of reg_list put on the bus: a sleep for a pair
\* with the delay sentinel, one register write for any other pair.
Applied(k) ==
    [j \in 1 .. k |->
        IF reg_list[2 * j - 1] = REG_DLY
          THEN Sleep(reg_list[2 * j])
          ELSE WriteFrame(reg_list[2 * j - 1], reg_list[2 * j])]

WritesTo(r) == {k \in 1 .. Len(log) : log[k].kind = "write" /\ FrameReg(log[k]) = r}

LastWrite(r) == CHOOSE k \in WritesTo(r) : \A j \in WritesTo(r) : j <= k

\* C14: write_camera_list handles the pairs in order; a pair with the
\* register 0xFFFF is never written, it sleeps value milliseconds; any
\* other pair is one write of the value to the register; a bus failure
\* ends the call with the error at the pair that failed, with the pairs
\* before it applied and none after it.
C14_ListInOrder ==
    op = "write_camera_list" =>
        /\ log = Applied(list_i \div 2)
        /\ \A k \in 1 .. Len(log) : log[k].kind = "write" => FrameReg(log[k]) # REG_DLY
        /\ \A r \in ListRegs : WritesTo(r) # {} => regs[r] = log[LastWrite(r)].bytes[3]
        /\ pc = "done" => result \in {"returned", "OSError"}
        /\ result = "returned" => list_i = Len(reg_list)
        /\ result = "OSError" => (list_i < Len(reg_list) /\ reg_list[list_i + 1] # REG_DLY)

\* A list of three pairs: a delay, a write, and a write on which the bus fails.
C14_Witness ==
    /\ op = "write_camera_list"
    /\ result = "OSError"
    /\ Len(reg_list) = 6
    /\ reg_list[1] = REG_DLY
    /\ list_i = 4
    /\ log = <<Sleep(reg_list[2]), WriteFrame(reg_list[3], reg_list[4])>>

SetterReturned == op \in SetterOps /\ pc = "done" /\ result = "returned"

\* The automatic-control flag of the setting an operation sets.
Flag(o) ==
    IF o = "set_camera_wb" THEN whitebal
    ELSE IF o = "set_camera_exposure" THEN exposure_ctrl
    ELSE gain_ctrl

\* The registers of a setting hold the value v.
Holds(o, v) ==
    IF o = "set_camera_wb"
      THEN \A i \in 1 .. Len(v) : regs[REG_AWB_GAIN + i - 1] = v[i]
      ELSE IF o = "set_camera_exposure"
             THEN /\ regs[REG_EXPOSURE] = (v[1] \div 4096) % 256
                  /\ regs[REG_EXPOSURE + 1] = (v[1] \div 16) % 256
                  /\ regs[REG_EXPOSURE + 2] = (v[1] * 16) % 256
             ELSE regs[REG_GAIN] = v[1]

\* C15: for exposure, gain and white balance, the setter called with None
\* leaves the automatic-control flag of the setting on; called with a
\* value it leaves the flag off and the value in the setting's registers.
C15_AutoManual ==
    SetterReturned =>
        IF param.none
          THEN Flag(op) = "True"
          ELSE Flag(op) = "False" /\ Holds(op, param.val)

\* The same without the flag of the white balance.
AutoManualButWbFlag ==
    SetterReturned =>
        IF param.none
          THEN Flag(op) = "True"
          ELSE (op # "set_camera_wb" => Flag(op) = "False") /\ Holds(op, param.val)

\* C17: a frame continuous_capture() takes is never taken while the camera
\* is configured for JPEG, after a capture_into_jpeg() either: it is in
\* the preview pixel format.
C17_PreviewNeverJpeg ==
    (op = "continuous_capture" /\ pc = "done") =>
        /\ calls = <<CameraCall("take", pixel_format, frame_size)>>
        /\ pixel_format # "JPEG"

GetterReturned == op = "get_camera_autosettings" /\ pc = "done" /\ result = "returned"

\* C19: what set_camera_exposure has programmed, a value in [0, 2^20),
\* get_camera_autosettings reads back as "exposure" as long as no later
\* call has touched the registers; likewise the gain and the six white
\* balance bytes.
C19_ReadBack ==
    GetterReturned =>
        /\ (~programmed["set_camera_exposure"].none
                /\ programmed["set_camera_exposure"].val[1] < 1048576) =>
              ret.val[2] = programmed["set_camera_exposure"].val[1]
        /\ ~programmed["set_camera_gain"].none =>
              ret.val[1] = programmed["set_camera_gain"].val[1]
        /\ ~programmed["set_camera_wb"].none =>
              SubSeq(ret.val, 3, 8) = programmed["set_camera_wb"].val

C19_Witness ==
    /\ GetterReturned
    /\ programmed["set_camera_exposure"] = Val(<<74565>>)
    /\ programmed["set_camera_gain"] = Val(<<255>>)
    /\ ~programmed["set_camera_wb"].none
    /\ ret.val = <<255, 74565, 15, 255, 1, 2, 3, 128>>

-----------------------------------------------------------------------------
(* Claims on the main loop of pir_af.py                                    *)

\* The poll made in this step calls capture_send_image().
PirTriggers == pir_pc = "poll" /\ pir_pc' = "autofocus"

\* The poll made in this step reads the PIR high after a poll that read it
\* low, or is the first poll and reads it high.
PirRisingEdge == pir_pc = "poll" /\ pir_status' /\ (first_poll \/ ~pir_status)

PirPolls == pir_pc = "poll" /\ first_poll' = FALSE /\ pc' = "idle" /\ pc = "idle"

\* C21: the main loop calls capture_send_image() on rising edges only: on
\* a poll that reads the PIR high when the poll before it read low (or
\* there was none); while the PIR reads high poll after poll, the first of
\* these polls triggers a capture and no later one does until a poll has
\* read low.
C21_RisingEdgesOnly == [][PirPolls => (PirTriggers <=> PirRisingEdge)]_vars

\* What the loop does: a poll triggers when it reads high and
\* pir_last_status is False, and pir_last_status is True only right after
\* a poll that triggered.
PirEveryOtherHigh ==
    [][PirPolls => /\ PirTriggers <=> (pir_status' /\ ~pir_last_status)
                   /\ pir_last_status' <=> PirTriggers]_vars

====
